---------------------------- MODULE Spec2Model ----------------------------
(***************************************************************************)
(* HomeMatch: the three scripts of the repository as one state machine.    *)
(*   GenerateListings.py          the Listing Generator                    *)
(*   GenerateEnhancedListings.py  the Description Enhancer                 *)
(*   HomeMatch.py                 the Matching Pipeline                    *)
(* The scripts are separate processes that share only two files,           *)
(* listings.json and semantic_enhanced_listings.txt.  A behaviour is       *)
(* either one run of the Generator, or one run of the Enhancer followed by *)
(* one run of the Matching Pipeline on a listings.json the Generator can   *)
(* have written.                                                           *)
(*                                                                         *)
(* Text is a sequence of tokens.  The characters the code looks at (the    *)
(* backtick, the comma, the colon, the line break, the space, the digits)  *)
(* are tokens of their own; a run of other characters is one token.        *)
(***************************************************************************)
EXTENDS Integers, Sequences, FiniteSets, TLC

\* ------------------------------------------------------------------ bounds
MaxAmount == 2      \* largest amount passed to generate_listings
MaxListings == 3    \* longest listings.json the Enhancer is started on
MaxId == 3          \* largest listing id in such a listings.json

\* ------------------------------------------------------- program constants
ExtraTrys == 10
K == 2

\* --------------------------------------------------------- text primitives
BT == "BACKTICK"    \* the backtick character
NL == "\n"
SP == " "
COMMA == ","
COLON == ":"

FenceJson == <<BT, BT, BT, "json">>
Fence == <<BT, BT, BT>>

\* Python: pat in s
Contains(s, pat) ==
    \E i \in 1..(Len(s) - Len(pat) + 1) : SubSeq(s, i, i + Len(pat) - 1) = pat

\* Python: s.replace(old, ""), left to right, non-overlapping
RECURSIVE replace(_, _)
replace(s, old) ==
    IF Len(s) < Len(old) THEN s
    ELSE IF SubSeq(s, 1, Len(old)) = old
         THEN replace(SubSeq(s, Len(old) + 1, Len(s)), old)
         ELSE <<Head(s)>> \o replace(Tail(s), old)

\* index of the first token of s equal to c, 0 when there is none
FirstIndex(s, c) ==
    IF \E i \in 1..Len(s) : s[i] = c
    THEN CHOOSE i \in 1..Len(s) : s[i] = c /\ \A j \in 1..(i - 1) : s[j] # c
    ELSE 0

\* Python: s.split(sep) for a one-character sep
RECURSIVE split(_, _)
split(s, sep) ==
    LET i == FirstIndex(s, sep)
    IN IF i = 0 THEN <<s>>
       ELSE <<SubSeq(s, 1, i - 1)>> \o split(SubSeq(s, i + 1, Len(s)), sep)

\* Python: f.readlines() on a file holding s; every line keeps its line break
RECURSIVE readlines(_)
readlines(s) ==
    LET i == FirstIndex(s, NL)
    IN IF s = <<>> THEN <<>>
       ELSE IF i = 0 THEN <<s>>
       ELSE <<SubSeq(s, 1, i)>> \o readlines(SubSeq(s, i + 1, Len(s)))

Digits == <<"0", "1", "2", "3", "4", "5", "6", "7", "8", "9">>

\* Python: str(n) for n >= 0
RECURSIVE str(_)
str(n) ==
    IF n < 10 THEN <<Digits[n + 1]>>
    ELSE str(n \div 10) \o <<Digits[(n % 10) + 1]>>

DigitValue(d) == (CHOOSE i \in 1..10 : Digits[i] = d) - 1

\* the integer a JSON number text denotes
RECURSIVE int(_)
int(t) ==
    IF Len(t) = 1 THEN DigitValue(t[1])
    ELSE 10 * int(SubSeq(t, 1, Len(t) - 1)) + DigitValue(t[Len(t)])

Min(a, b) == IF a < b THEN a ELSE b


\* ------------------------------------------------------ JSON and listings
RequiredFields ==
    {"neighborhood", "price", "bedrooms", "bathrooms", "size", "description",
     "neighborhood_description"}

\* The JSON texts an LLM response can carry, each one token, and the value
\* json.loads gives for it.
ObjA ==
    [neighborhood |-> <<"Green Oaks">>,
     price |-> <<"$800", COMMA, "000">>,
     bedrooms |-> <<"3">>,
     bathrooms |-> <<"2">>,
     size |-> <<"2", COMMA, "000 sqft">>,
     description |-> <<"A comfortable three-bedroom house">>,
     neighborhood_description |-> <<"A close-knit community">>]

ObjNL ==
    [neighborhood |-> <<"Maple Ridge">>,
     price |-> <<"$450", COMMA, "000">>,
     bedrooms |-> <<"2">>,
     bathrooms |-> <<"1">>,
     size |-> <<"1", COMMA, "000 sqft">>,
     description |-> <<"Two floors", NL, "and a garden">>,
     neighborhood_description |-> <<"Quiet streets">>]

ObjPartial ==
    [neighborhood |-> <<"Green Oaks">>,
     price |-> <<"$800", COMMA, "000">>,
     bedrooms |-> <<"3">>,
     bathrooms |-> <<"2">>,
     size |-> <<"2", COMMA, "000 sqft">>,
     description |-> <<"A comfortable three-bedroom house">>]

JsonTexts == {"{listing A}", "{listing NL}", "{listing without neighborhood_description}", "[array]"}

JsonValue(tok) ==
    CASE tok = "{listing A}" -> [kind |-> "object", value |-> ObjA]
      [] tok = "{listing NL}" -> [kind |-> "object", value |-> ObjNL]
      [] tok = "{listing without neighborhood_description}" ->
            [kind |-> "object", value |-> ObjPartial]
      [] tok = "[array]" -> [kind |-> "array", value |-> <<>>]

IsWhitespace(tok) == tok \in {NL, SP}
NotWhitespace(tok) == ~IsWhitespace(tok)

\* Python: json.loads(s).  Whitespace around the value is allowed; anything
\* else beside one JSON text is a JSONDecodeError (ok = FALSE).
loads(s) ==
    LET t == SelectSeq(s, NotWhitespace)
    IN IF Len(t) = 1 /\ t[1] \in JsonTexts
       THEN [ok |-> TRUE, kind |-> JsonValue(t[1]).kind, value |-> JsonValue(t[1]).value]
       ELSE [ok |-> FALSE, kind |-> "none", value |-> <<>>]

\* Python: json.dump(listings, f) / json.load(f).  In the file the id is a
\* number text.
dump(ls) == [i \in 1..Len(ls) |-> [ls[i] EXCEPT !.id = str(@)]]
load(file) == [i \in 1..Len(file) |-> [file[i] EXCEPT !.id = int(@)]]

\* Python values that end up as metadata["id"]
PyInt(n) == [type |-> "int", repr |-> str(n)]
PyStr(t) == [type |-> "str", repr |-> t]

\* ---------------------------------------------------------- LLM responses
Wrapped(payload) == FenceJson \o <<NL>> \o payload \o <<NL>> \o Fence

GenResponses ==
    { Wrapped(<<"{listing A}">>),
      Wrapped(<<"{listing NL}">>),
      <<"{listing A}">>,
      Fence \o <<NL, "{listing A}", NL>> \o Fence,
      Wrapped(<<"Here is the listing", COLON, SP, "{listing A}">>),
      Wrapped(<<"{listing without neighborhood_description}">>),
      Wrapped(<<"[array]">>) }

EnhResponses ==
    { <<"A cozy two-bedroom house">>,
      FenceJson \o <<"A cozy two-bedroom house">> \o Fence,
      Fence \o <<"A cozy two-bedroom house">> \o Fence,
      <<"A cozy house", NL, "with a small kitchen">>,
      <<"Summary", NL, "Note", COLON, SP, "cozy">> }

\* ------------------------------------------------------------------- state
VARIABLES
    pc,                 \* position in the running script
    error,              \* the uncaught exception that ended the run, or "none"
    amount,             \* generate_listings' argument
    trys,               \* generate_listings' attempt counter
    listings,           \* the script's list of listings
    response,           \* response.content of the latest LLM response
    idx,                \* position of the running for loop
    listingsFile,       \* content of listings.json
    semanticFile,       \* content of semantic_enhanced_listings.txt
    semantic_enhanced_documents,      \* the Enhancer's documents
    raw_vectorstore,                  \* documents of collection raw_listings
    semantic_enhanced_vectorstore,    \* documents of collection semantic_listings
    similarity_search_raw_vectorstore,
    similarity_search_semantic_enhanced_vectorstore

vars ==
    <<pc, error, amount, trys, listings, response, idx, listingsFile, semanticFile,
      semantic_enhanced_documents, raw_vectorstore, semantic_enhanced_vectorstore,
      similarity_search_raw_vectorstore,
      similarity_search_semantic_enhanced_vectorstore>>

genVars == <<amount, trys>>
matchVars ==
    <<raw_vectorstore, semantic_enhanced_vectorstore,
      similarity_search_raw_vectorstore,
      similarity_search_semantic_enhanced_vectorstore>>

\* ------------------------------------------------- files before the run
\* What an earlier run left in the two files.
OldListing ==
    [id |-> 7, neighborhood |-> <<"Old Town">>, price |-> <<"$1">>,
     bedrooms |-> <<"1">>, bathrooms |-> <<"1">>, size |-> <<"1 sqft">>,
     description |-> <<"An earlier listing">>,
     neighborhood_description |-> <<"An earlier neighborhood">>]

OldListingsFile == dump(<<OldListing>>)
OldSemanticFile == <<"id", COLON, SP, "7", COMMA, SP, "earlier text", NL>>

\* ------------------------------------------------------------- Generator
\* lines 87-96 with "id": len(listings) + 1, the next sequential number
NewListingSequentialId(t, parsed) ==
    [id |-> Len(listings) + 1,
     neighborhood |-> parsed["neighborhood"],
     price |-> parsed["price"],
     bedrooms |-> parsed["bedrooms"],
     bathrooms |-> parsed["bathrooms"],
     size |-> parsed["size"],
     description |-> parsed["description"],
     neighborhood_description |-> parsed["neighborhood_description"]]

\* lines 87-96: the dict appended for an accepted response
NewListing(t, parsed) ==
    [id |-> t,
     neighborhood |-> parsed["neighborhood"],
     price |-> parsed["price"],
     bedrooms |-> parsed["bedrooms"],
     bathrooms |-> parsed["bathrooms"],
     size |-> parsed["size"],
     description |-> parsed["description"],
     neighborhood_description |-> parsed["neighborhood_description"]]

\* line 57 with len(listings) <= amount
LoopCondAcceptsOneMore(ls, t, a) == Len(ls) <= a /\ t < a + ExtraTrys

\* line 57 with trys <= amount + 10
LoopCondOneMoreTry(ls, t, a) == Len(ls) < a /\ t <= a + ExtraTrys

\* line 57: the while condition
LoopCond(ls, t, a) == Len(ls) < a /\ t < a + ExtraTrys

\* line 73 testing for a bare ``` instead
HasAnyFence(content) == Contains(content, Fence)

\* line 73: "```json" in response.content
HasJsonFence(content) == Contains(content, FenceJson)

\* line 74: response.content.replace("```json", "").replace("```", "")
Unwrap(content) == replace(replace(content, FenceJson), Fence)

\* lines 74, 81: json.loads of the unwrapped content of the response in hand
parsed_response == loads(Unwrap(response))

Halt(at, err) ==
    /\ pc' = at
    /\ error' = err

\* lines 57-72: the loop is entered, trys is incremented, the LLM answers
GenRequest ==
    /\ pc = "gen_loop"
    /\ LoopCond(listings, trys, amount)
    /\ trys' = trys + 1
    /\ \E r \in GenResponses : response' = r
    /\ pc' = "gen_handle"
    /\ UNCHANGED <<error, amount, listings, idx, listingsFile, semanticFile,
                   semantic_enhanced_documents, matchVars>>

\* lines 57-72: llm.invoke raises (network, authentication); nothing catches it
GenInvokeFails ==
    /\ pc = "gen_loop"
    /\ LoopCond(listings, trys, amount)
    /\ trys' = trys + 1
    /\ Halt("gen_halted", "InvokeError")
    /\ UNCHANGED <<amount, listings, response, idx, listingsFile, semanticFile,
                   semantic_enhanced_documents, matchVars>>

\* lines 73-77: no "```json" in the content: print and continue
GenSkipNoFence ==
    /\ pc = "gen_handle"
    /\ ~HasJsonFence(response)
    /\ pc' = "gen_loop"
    /\ UNCHANGED <<error, genVars, listings, response, idx, listingsFile,
                   semanticFile, semantic_enhanced_documents, matchVars>>

\* lines 73-84: the unwrapped content is not JSON: print and continue
GenSkipDecodeError ==
    /\ pc = "gen_handle"
    /\ HasJsonFence(response)
    /\ ~parsed_response.ok
    /\ response' = Unwrap(response)
    /\ pc' = "gen_loop"
    /\ UNCHANGED <<error, genVars, listings, idx, listingsFile, semanticFile,
                   semantic_enhanced_documents, matchVars>>

\* lines 73-96: the unwrapped content is a JSON object with the seven fields
GenAccept ==
    /\ pc = "gen_handle"
    /\ HasJsonFence(response)
    /\ parsed_response.ok
    /\ parsed_response.kind = "object"
    /\ RequiredFields \subseteq DOMAIN parsed_response.value
    /\ listings' = Append(listings, NewListing(trys, parsed_response.value))
    /\ response' = Unwrap(response)
    /\ pc' = "gen_loop"
    /\ UNCHANGED <<error, genVars, idx, listingsFile, semanticFile,
                   semantic_enhanced_documents, matchVars>>

\* lines 87-96: parsed_response["neighborhood"] ... on a JSON value that is not
\* an object raises TypeError, on an object without the key KeyError; only
\* json.JSONDecodeError is caught (line 82)
GenSubscriptRaises ==
    /\ pc = "gen_handle"
    /\ HasJsonFence(response)
    /\ parsed_response.ok
    /\ \/ /\ parsed_response.kind # "object"
          /\ Halt("gen_halted", "TypeError")
       \/ /\ parsed_response.kind = "object"
          /\ ~(RequiredFields \subseteq DOMAIN parsed_response.value)
          /\ Halt("gen_halted", "KeyError")
    /\ response' = Unwrap(response)
    /\ UNCHANGED <<genVars, listings, idx, listingsFile, semanticFile,
                   semantic_enhanced_documents, matchVars>>

\* lines 57, 98-101: the loop ends, the count is printed, listings.json is
\* opened for writing (and so truncated)
GenExitLoop ==
    /\ pc = "gen_loop"
    /\ ~LoopCond(listings, trys, amount)
    /\ listingsFile' = <<>>
    /\ pc' = "gen_dump"
    /\ UNCHANGED <<error, genVars, listings, response, idx, semanticFile,
                   semantic_enhanced_documents, matchVars>>

\* line 102: json.dump and the close of the with block
GenDump ==
    /\ pc = "gen_dump"
    /\ listingsFile' = dump(listings)
    /\ pc' = "gen_done"
    /\ UNCHANGED <<error, genVars, listings, response, idx, semanticFile,
                   semantic_enhanced_documents, matchVars>>

GenNext ==
    \/ GenRequest
    \/ GenInvokeFails
    \/ GenSkipNoFence
    \/ GenSkipDecodeError
    \/ GenAccept
    \/ GenSubscriptRaises
    \/ GenExitLoop
    \/ GenDump

\* -------------------------------------------------------------- Enhancer
\* lines 38-40: the Document built for one listing
Document(listing, content) ==
    [page_content |->
        <<"id", COLON, SP>> \o str(listing.id)
        \o <<COMMA, " converted description", COLON, SP>> \o content
        \o <<COMMA, " original description", COLON, SP>> \o listing.description
        \o <<COMMA, " neighborhood_description", COLON, SP>>
        \o listing.neighborhood_description,
     metadata |-> [id |-> PyInt(listing.id)]]

\* lines 35-36: the wrapper is removed only when "```json" is in the content
Converted(content) == IF HasJsonFence(content) THEN Unwrap(content) ELSE content

\* lines 44-46 with the output file opened before the listings are enhanced
EnhLoadOpensOutput ==
    /\ pc = "enh_start"
    /\ listings' = load(listingsFile)
    /\ semantic_enhanced_documents' = <<>>
    /\ semanticFile' = <<>>
    /\ idx' = 1
    /\ pc' = "enh_loop"
    /\ UNCHANGED <<error, genVars, response, listingsFile, matchVars>>

\* lines 44-46, 19: listings.json is read, generate_enhanced_listings starts
EnhLoad ==
    /\ pc = "enh_start"
    /\ listings' = load(listingsFile)
    /\ semantic_enhanced_documents' = <<>>
    /\ idx' = 1
    /\ pc' = "enh_loop"
    /\ UNCHANGED <<error, genVars, response, listingsFile, semanticFile, matchVars>>

\* lines 32-34: the LLM answers for the next listing
EnhRequest ==
    /\ pc = "enh_loop"
    /\ idx <= Len(listings)
    /\ \E r \in EnhResponses : response' = r
    /\ pc' = "enh_handle"
    /\ UNCHANGED <<error, genVars, listings, idx, listingsFile, semanticFile,
                   semantic_enhanced_documents, matchVars>>

\* line 34: llm.invoke raises; nothing catches it
EnhInvokeFails ==
    /\ pc = "enh_loop"
    /\ idx <= Len(listings)
    /\ Halt("enh_halted", "InvokeError")
    /\ UNCHANGED <<genVars, listings, response, idx, listingsFile, semanticFile,
                   semantic_enhanced_documents, matchVars>>

\* lines 35-40: unwrap, compose and append the document
EnhHandle ==
    /\ pc = "enh_handle"
    /\ response' = Converted(response)
    /\ semantic_enhanced_documents' =
          Append(semantic_enhanced_documents, Document(listings[idx], Converted(response)))
    /\ idx' = idx + 1
    /\ pc' = "enh_loop"
    /\ UNCHANGED <<error, genVars, listings, listingsFile, semanticFile, matchVars>>

\* lines 41, 46-47: the loop is over, the documents are returned and
\* semantic_enhanced_listings.txt is opened for writing (and so truncated)
EnhReturn ==
    /\ pc = "enh_loop"
    /\ idx > Len(listings)
    /\ semanticFile' = <<>>
    /\ idx' = 1
    /\ pc' = "enh_write"
    /\ UNCHANGED <<error, genVars, listings, response, listingsFile,
                   semantic_enhanced_documents, matchVars>>

\* lines 48-49: f.write(document.page_content + "\n")
EnhWrite ==
    /\ pc = "enh_write"
    /\ idx <= Len(semantic_enhanced_documents)
    /\ semanticFile' =
          semanticFile \o semantic_enhanced_documents[idx].page_content \o <<NL>>
    /\ idx' = idx + 1
    /\ UNCHANGED <<pc, error, genVars, listings, response, listingsFile,
                   semantic_enhanced_documents, matchVars>>

\* line 49: the with block closes the file
EnhClose ==
    /\ pc = "enh_write"
    /\ idx > Len(semantic_enhanced_documents)
    /\ pc' = "enh_done"
    /\ UNCHANGED <<error, genVars, listings, response, idx, listingsFile,
                   semanticFile, semantic_enhanced_documents, matchVars>>

EnhNext ==
    \/ EnhLoad
    \/ EnhRequest
    \/ EnhInvokeFails
    \/ EnhHandle
    \/ EnhReturn
    \/ EnhWrite
    \/ EnhClose

\* ------------------------------------------------------ Matching Pipeline
\* lines 67-68: the raw document of a listing
RawDocument(listing) ==
    [page_content |-> [k \in (DOMAIN listing) \ {"id"} |-> listing[k]],
     metadata |-> [id |-> PyInt(listing.id),
                   neighborhood |-> listing.neighborhood,
                   price |-> listing.price]]

\* line 80: line.split(",")[0].split(":"), of which element [1] becomes the id
IdParts(line) == split(split(line, COMMA)[1], COLON)

\* line 80: the semantic document of a line
SemanticDocument(line) ==
    [page_content |-> line, metadata |-> [id |-> PyStr(IdParts(line)[2])]]

\* similarity_search ignoring k: every document of the collection
similarity_search_all(docs, k) ==
    LET Ranks == {f \in [1..Len(docs) -> 1..Len(docs)] :
                     \A i, j \in 1..Len(docs) : i # j => f[i] # f[j]}
    IN {[i \in 1..Len(docs) |-> docs[f[i]]] : f \in Ranks}

\* lines 118, 126: similarity_search(query, k): the k nearest documents of
\* the collection, nearest first; all of them when it holds fewer than k.
\* Which documents are nearest is decided by the embedding model.
similarity_search(docs, k) ==
    LET m == Min(k, Len(docs))
        Ranks == {f \in [1..m -> 1..Len(docs)] :
                     \A i, j \in 1..m : i # j => f[i] # f[j]}
    IN {[i \in 1..m |-> docs[f[i]]] : f \in Ranks}

\* lines 61-77: listings.json is read and the raw collection built
MatchLoadRaw ==
    /\ pc = "enh_done"
    /\ listings' = load(listingsFile)
    /\ raw_vectorstore' = [i \in 1..Len(listingsFile) |-> RawDocument(load(listingsFile)[i])]
    /\ pc' = "match_semantic"
    /\ UNCHANGED <<error, genVars, response, idx, listingsFile, semanticFile,
                   semantic_enhanced_documents, semantic_enhanced_vectorstore,
                   similarity_search_raw_vectorstore,
                   similarity_search_semantic_enhanced_vectorstore>>

\* lines 79-87: the lines of semantic_enhanced_listings.txt are read and the
\* semantic collection built
MatchLoadSemantic ==
    /\ pc = "match_semantic"
    /\ \A i \in 1..Len(readlines(semanticFile)) :
          Len(IdParts(readlines(semanticFile)[i])) >= 2
    /\ semantic_enhanced_vectorstore' =
          [i \in 1..Len(readlines(semanticFile)) |->
              SemanticDocument(readlines(semanticFile)[i])]
    /\ pc' = "match_search_raw"
    /\ UNCHANGED <<error, genVars, listings, response, idx, listingsFile,
                   semanticFile, semantic_enhanced_documents, raw_vectorstore,
                   similarity_search_raw_vectorstore,
                   similarity_search_semantic_enhanced_vectorstore>>

\* line 80: a line whose first comma-separated segment has no colon:
\* [1] raises IndexError
MatchLoadSemanticRaises ==
    /\ pc = "match_semantic"
    /\ \E i \in 1..Len(readlines(semanticFile)) :
          Len(IdParts(readlines(semanticFile)[i])) < 2
    /\ Halt("match_halted", "IndexError")
    /\ UNCHANGED <<genVars, listings, response, idx, listingsFile, semanticFile,
                   semantic_enhanced_documents, matchVars>>

\* line 118
SearchRaw ==
    /\ pc = "match_search_raw"
    /\ \E res \in similarity_search(raw_vectorstore, K) :
          similarity_search_raw_vectorstore' = res
    /\ pc' = "match_search_semantic"
    /\ UNCHANGED <<error, genVars, listings, response, idx, listingsFile,
                   semanticFile, semantic_enhanced_documents, raw_vectorstore,
                   semantic_enhanced_vectorstore,
                   similarity_search_semantic_enhanced_vectorstore>>

\* line 126
SearchSemantic ==
    /\ pc = "match_search_semantic"
    /\ \E res \in similarity_search(semantic_enhanced_vectorstore, K) :
          similarity_search_semantic_enhanced_vectorstore' = res
    /\ idx' = 1
    /\ pc' = "match_augment"
    /\ UNCHANGED <<error, genVars, listings, response, listingsFile, semanticFile,
                   semantic_enhanced_documents, raw_vectorstore,
                   semantic_enhanced_vectorstore, similarity_search_raw_vectorstore>>

\* lines 145-149: one personalization request per raw result
Personalize ==
    /\ pc = "match_augment"
    /\ idx <= Len(similarity_search_raw_vectorstore)
    /\ idx' = idx + 1
    /\ UNCHANGED <<pc, error, genVars, listings, response, listingsFile,
                   semanticFile, semantic_enhanced_documents, matchVars>>

\* line 147: llm.invoke raises; nothing catches it
PersonalizeInvokeFails ==
    /\ pc = "match_augment"
    /\ idx <= Len(similarity_search_raw_vectorstore)
    /\ Halt("match_halted", "InvokeError")
    /\ UNCHANGED <<genVars, listings, response, idx, listingsFile, semanticFile,
                   semantic_enhanced_documents, matchVars>>

\* line 149: the loop is over and main returns
MatchFinish ==
    /\ pc = "match_augment"
    /\ idx > Len(similarity_search_raw_vectorstore)
    /\ pc' = "match_done"
    /\ UNCHANGED <<error, genVars, listings, response, idx, listingsFile,
                   semanticFile, semantic_enhanced_documents, matchVars>>

MatchNext ==
    \/ MatchLoadRaw
    \/ MatchLoadSemantic
    \/ MatchLoadSemanticRaises
    \/ SearchRaw
    \/ SearchSemantic
    \/ Personalize
    \/ PersonalizeInvokeFails
    \/ MatchFinish

\* ------------------------------------------------------------ the system
\* The lists of listings generate_listings can leave in listings.json: ids
\* strictly increasing, every entry the normalised dict of lines 87-96.
ListingChoices ==
    {NewListing(i, o) : i \in 1..MaxId, o \in {ObjA, ObjNL}}

ProducibleListings ==
    UNION { {ls \in [1..n -> ListingChoices] :
                \A i \in 1..n, j \in 1..n : i < j => ls[i].id < ls[j].id}
            : n \in 0..MaxListings }

Blank ==
    /\ error = "none"
    /\ trys = 0
    /\ listings = <<>>
    /\ response = <<>>
    /\ idx = 1
    /\ semanticFile = OldSemanticFile
    /\ semantic_enhanced_documents = <<>>
    /\ raw_vectorstore = <<>>
    /\ semantic_enhanced_vectorstore = <<>>
    /\ similarity_search_raw_vectorstore = <<>>
    /\ similarity_search_semantic_enhanced_vectorstore = <<>>

\* generate_listings(amount) is about to run (lines 55-56)
GenInit ==
    /\ Blank
    /\ pc = "gen_loop"
    /\ amount \in -1..MaxAmount
    /\ listingsFile = OldListingsFile

\* GenerateEnhancedListings.py is about to run on a generated listings.json
EnhInit ==
    /\ Blank
    /\ pc = "enh_start"
    /\ amount = 0
    /\ listingsFile \in {dump(ls) : ls \in ProducibleListings}

Init == GenInit \/ EnhInit

Next == GenNext \/ EnhNext \/ MatchNext

Spec == Init /\ [][Next]_vars

\* generate_listings is sequential code: once called it keeps executing, and
\* every llm.invoke it makes returns or raises.
GenFairSpec == GenInit /\ [][GenNext]_vars /\ WF_vars(GenNext)

\* ================================================================ claims
GenPcs == {"gen_loop", "gen_handle", "gen_dump", "gen_done", "gen_halted"}
LoopExited == pc \in {"gen_dump", "gen_done"}

\* C1: for amount >= 0, in every state of generate_listings the number of
\* accepted listings is at most amount and trys is at most amount + 10, and
\* the array written to listings.json has at most amount entries.
C1_Bounded ==
    (pc \in GenPcs /\ amount >= 0) =>
        /\ Len(listings) <= amount
        /\ trys <= amount + ExtraTrys
        /\ (pc = "gen_done" => Len(listingsFile) <= amount)

\* C1 witness: the last permitted attempt delivers the last requested listing.
C1_Witness ==
    /\ pc = "gen_done"
    /\ amount >= 1
    /\ Len(listingsFile) = amount
    /\ trys = amount + ExtraTrys

\* C2: an accepted listing's id is the value of trys on the attempt that
\* accepted it (attempts count from 1), so the ids of the accumulated list
\* are strictly increasing, hence pairwise distinct.
C2_IdIsAttemptNumber ==
    /\ [](pc \in GenPcs =>
            /\ \A i \in 1..Len(listings) : listings[i].id \in 1..trys
            /\ \A i, j \in 1..Len(listings) :
                  i < j => listings[i].id < listings[j].id)
    /\ [][(pc = "gen_handle" /\ listings' # listings) =>
            /\ trys' = trys
            /\ Len(listings') = Len(listings) + 1
            /\ SubSeq(listings', 1, Len(listings)) = listings
            /\ listings'[Len(listings')].id = trys]_vars

\* C2 witness: two accepted listings whose ids are not contiguous, attempts
\* 1 and 3 having been skipped.
C2_Witness ==
    /\ pc \in GenPcs
    /\ Len(listings) = 2
    /\ listings[1].id = 2
    /\ listings[2].id = 4

\* C3: an attempt whose response content has no "```json" leaves the list of
\* listings unchanged and costs exactly one attempt (the increment of line 58),
\* even when the content alone is a valid listing object.
C3_NoFenceSkips ==
    /\ [][(pc = "gen_loop" /\ pc' = "gen_handle") =>
            (trys' = trys + 1 /\ listings' = listings)]_vars
    /\ [][(pc = "gen_handle" /\ ~Contains(response, FenceJson)) =>
            (pc' = "gen_loop" /\ trys' = trys /\ listings' = listings
             /\ error' = error)]_vars

\* C3 witness: a skipped first attempt whose content was a bare, valid
\* listing object.
C3_Witness ==
    /\ pc = "gen_loop"
    /\ trys = 1
    /\ listings = <<>>
    /\ response = <<"{listing A}">>

\* C4: whatever the response content, the attempt ends with a listing
\* appended or with a logged skip, and the loop goes on: the run is never
\* halted by a response content (only by a failing LLM call).
C4_MalformedOutputRecovered ==
    pc = "gen_halted" => error = "InvokeError"

\* the two stop conditions of the loop
StopTarget == Len(listings) = amount
StopBudget == trys = amount + ExtraTrys /\ Len(listings) < amount

\* C5 (as stated): at loop exit, for every amount, exactly one stop condition
\* holds: len(listings) = amount, or trys = amount + 10 with fewer than amount
\* listings.
C5_ExactlyOneStopAnyAmount ==
    LoopExited => (StopTarget # StopBudget)

\* C5 (amended): for every amount >= 0 generate_listings terminates; at loop
\* exit exactly one stop condition holds; and from the loop exit on, under
\* delivery included, no error is raised and the run ends with the
\* accumulated list written to listings.json (a run that never reaches the
\* loop exit ends with an uncaught error).
C5_Terminates ==
    /\ <>(pc \in {"gen_done", "gen_halted"})
    /\ [](LoopExited /\ amount >= 0 => (StopTarget # StopBudget))
    /\ [](LoopExited => error = "none")
    /\ [](pc = "gen_done" => listingsFile = dump(listings))

\* C5 witness: the budget ran out with fewer listings than requested and the
\* file was written all the same.
C5_Witness ==
    /\ pc = "gen_done"
    /\ Len(listings) < amount
    /\ trys = amount + ExtraTrys
    /\ listingsFile = dump(listings)

\* C6: semantic_enhanced_listings.txt has exactly one line per input listing,
\* the i-th line being the composed description of the i-th listing.
C6_OneLinePerListing ==
    pc = "enh_done" =>
        /\ Len(readlines(semanticFile)) = Len(listings)
        /\ \A i \in 1..Len(listings) :
              /\ i <= Len(readlines(semanticFile))
              /\ readlines(semanticFile)[i] =
                    semantic_enhanced_documents[i].page_content \o <<NL>>

\* C7: no composed document holds a code-fence marker in its converted
\* description (the other parts of a document never hold one: the Generator
\* removes every ``` before it parses a listing).
C7_NoFenceInDocument ==
    \A i \in 1..Len(semantic_enhanced_documents) :
        ~Contains(semantic_enhanced_documents[i].page_content, Fence)

Searched ==
    \/ pc \in {"match_augment", "match_done"}
    \/ pc = "match_halted" /\ error = "InvokeError"

LinesOf(i) == Len(readlines(semantic_enhanced_documents[i].page_content \o <<NL>>))

RECURSIVE LinesUpTo(_)
LinesUpTo(i) == IF i = 0 THEN 0 ELSE LinesUpTo(i - 1) + LinesOf(i)

\* the listing whose document line j of the file comes from
Origin(j) ==
    CHOOSE i \in 1..Len(semantic_enhanced_documents) :
        LinesUpTo(i - 1) < j /\ j <= LinesUpTo(i)

\* C9: every indexed document carries its listing's id: metadata["id"] of a
\* raw document is the listing's id, and the id parsed out of a line of
\* semantic_enhanced_listings.txt is the integer id of the listing the line
\* was produced from.
C9_MetadataIsListingId ==
    pc \in {"match_search_raw", "match_search_semantic", "match_augment", "match_done"} =>
        /\ \A i \in 1..Len(raw_vectorstore) :
              raw_vectorstore[i].metadata.id = PyInt(listings[i].id)
        /\ \A j \in 1..Len(semantic_enhanced_vectorstore) :
              semantic_enhanced_vectorstore[j].metadata.id = PyInt(listings[Origin(j)].id)

\* C10: neither output file is opened before the last generation request has
\* returned, so a run halted by an uncaught error in its loop leaves the file
\* as it was before the run.
C10_OutputUntouchedOnFailure ==
    /\ pc \in {"gen_loop", "gen_handle", "gen_halted"} => listingsFile = OldListingsFile
    /\ pc \in {"enh_loop", "enh_handle", "enh_halted"} => semanticFile = OldSemanticFile

\* C10 witness: the Enhancer halted after it had composed a document.
C10_Witness ==
    /\ pc = "enh_halted"
    /\ Len(semantic_enhanced_documents) >= 1
    /\ semanticFile = OldSemanticFile

=============================================================================
